---- MODULE Spec2Model ----
(***************************************************************************)
(* Model of src/lambda/lambda_function.py: the LogAnalyzer class           *)
(* (validation of raw log records, paginated aggregation, percentile and   *)
(* top-N finalisation).                                                    *)
(*                                                                         *)
(* Conventions                                                             *)
(*  - A Python string is a sequence of one-character strings, so that      *)
(*    int("404"), str(None) and .upper() are computed character by         *)
(*    character.                                                           *)
(*  - A raw JSON value is a record [t, i, s]: t is its Python type         *)
(*    ("absent" = key missing, "null" = None, "int", "str", "inf" =        *)
(*    float('inf')), i its integer value, s its characters.                *)
(*  - A Python dict is the sequence of its items in insertion order, which *)
(*    is the order dict iteration and the stable sorted() see.             *)
(*  - Response times are whole milliseconds; every figure of the report    *)
(*    that the code rounds to two decimals is an integer number of         *)
(*    hundredths (25.0 ms is 2500).                                        *)
(***************************************************************************)
EXTENDS Integers, Sequences, FiniteSets

VARIABLES
    input,           \* the `logs` argument: [is_list, items]
    page_size,       \* the `page_size` argument
    pc,              \* "start", "constructed", "folding", "done",
                     \* "init_failed", "analyze_failed"
    exc,             \* the exception that escaped, or "none"
    logs,            \* self.logs
    total_requests,  \* self.total_requests
    status_codes,    \* self.status_codes
    endpoints,       \* self.endpoints
    errors,          \* self.errors
    response_times,  \* self.response_times
    error_messages,  \* self.error_messages
    methods,         \* self.methods
    pages,           \* the list _paginate_logs returned to analyze's loop
    page_i,          \* number of pages analyze's loop has processed
    reports          \* what the analyze() calls on this object returned

vars == <<input, page_size, pc, exc, logs, total_requests, status_codes,
          endpoints, errors, response_times, error_messages, methods,
          pages, page_i, reports>>

(***************************************************************************)
(* Bounds of the model and constants of the program                        *)
(***************************************************************************)
MaxLen == 3
MaxPageSize == 4
MaxCalls == 2
MaxTopLen == 7
MaxSamples == 4

DefaultPageSize == 1000
DefaultStatus == 200
TopEndpointsN == 5
TopErrorsN == 3

(***************************************************************************)
(* Python values                                                           *)
(***************************************************************************)
Absent == [t |-> "absent", i |-> 0, s |-> <<>>]
Null == [t |-> "null", i |-> 0, s |-> <<>>]
Inf == [t |-> "inf", i |-> 0, s |-> <<>>]
IntV(n) == [t |-> "int", i |-> n, s |-> <<>>]
StrV(chars) == [t |-> "str", i |-> 0, s |-> chars]

LowerLetters == <<"a","b","c","d","e","f","g","h","i","j","k","l","m",
                  "n","o","p","q","r","s","t","u","v","w","x","y","z">>
UpperLetters == <<"A","B","C","D","E","F","G","H","I","J","K","L","M",
                  "N","O","P","Q","R","S","T","U","V","W","X","Y","Z">>
DigitChars == <<"0","1","2","3","4","5","6","7","8","9">>

IsDigit(c) == \E d \in 1..10 : DigitChars[d] = c
DigitValue(c) == (CHOOSE d \in 1..10 : DigitChars[d] = c) - 1

\* str.upper(), one character
UpperChar(c) ==
    IF \E k \in 1..26 : LowerLetters[k] = c
    THEN UpperLetters[CHOOSE k \in 1..26 : LowerLetters[k] = c]
    ELSE c

\* str.upper()
Upper(chars) == [k \in 1..Len(chars) |-> UpperChar(chars[k])]

\* str(n) for an integer n >= 0
RECURSIVE DigitsOf(_)
DigitsOf(n) ==
    IF n < 10 THEN <<DigitChars[n + 1]>>
    ELSE Append(DigitsOf(n \div 10), DigitChars[(n % 10) + 1])

\* str(v)
PyStr(v) ==
    CASE v.t = "str" -> v.s
      [] v.t = "null" -> <<"N","o","n","e">>
      [] v.t = "inf" -> <<"i","n","f">>
      [] v.t = "int" ->
            IF v.i < 0 THEN <<"-">> \o DigitsOf(0 - v.i) ELSE DigitsOf(v.i)

\* the value of a string of decimal digits
RECURSIVE DigitsValue(_)
DigitsValue(chars) ==
    IF chars = <<>> THEN 0
    ELSE 10 * DigitsValue(SubSeq(chars, 1, Len(chars) - 1))
         + DigitValue(chars[Len(chars)])

AllDigits(chars) ==
    /\ chars # <<>>
    /\ \A k \in 1..Len(chars) : IsDigit(chars[k])

Ok(n) == [exc |-> "none", v |-> n]
Raise(e) == [exc |-> e, v |-> 0]

\* int(s) for a string: an optional sign and decimal digits, else ValueError
ParseInt(chars) ==
    IF AllDigits(chars) THEN Ok(DigitsValue(chars))
    ELSE IF chars # <<>> /\ chars[1] \in {"-", "+"} /\ AllDigits(Tail(chars))
    THEN Ok((IF chars[1] = "-" THEN -1 ELSE 1) * DigitsValue(Tail(chars)))
    ELSE Raise("ValueError")

\* int(v)
IntCoerce(v) ==
    CASE v.t = "int" -> Ok(v.i)
      [] v.t = "str" -> ParseInt(v.s)
      [] v.t = "null" -> Raise("TypeError")
      [] v.t = "inf" -> Raise("OverflowError")

\* float(v), for the values whose result is a whole finite number
FloatCoerce(v) ==
    CASE v.t = "int" -> Ok(v.i)
      [] v.t = "str" -> ParseInt(v.s)
      [] v.t = "null" -> Raise("TypeError")

\* dict.get(key, default)
Get(v, default) == IF v.t = "absent" THEN default ELSE v

(***************************************************************************)
(* LogAnalyzer._validate_and_parse_logs                                    *)
(***************************************************************************)
NoTime == [present |-> FALSE, v |-> 0]

\* the LogEntry(...) expression of the try block: the entry, or the first
\* exception its argument expressions raise, in evaluation order
ParseEntry(log) ==
    LET status == IntCoerce(Get(log.status, IntV(DefaultStatus)))
        rt == IF log.response_time.t # "absent"
              THEN FloatCoerce(log.response_time)
              ELSE Ok(0)
        entry == [timestamp |-> Get(log.timestamp, StrV(<<>>)),
                  path |-> Get(log.path, StrV(<<"u","n","k","n","o","w","n">>)),
                  status |-> status.v,
                  method |-> Upper(PyStr(Get(log.method,
                                 StrV(<<"U","N","K","N","O","W","N">>)))),
                  response_time |->
                      IF log.response_time.t # "absent"
                      THEN [present |-> TRUE, v |-> rt.v]
                      ELSE NoTime,
                  message |-> Get(log.message, Null)]
    IN  IF ~log.is_dict THEN [exc |-> "AttributeError", entry |-> entry]
        ELSE IF status.exc # "none" THEN [exc |-> status.exc, entry |-> entry]
        ELSE IF rt.exc # "none" THEN [exc |-> rt.exc, entry |-> entry]
        ELSE [exc |-> "none", entry |-> entry]

\* the for loop: ValueError and TypeError are caught and the record skipped,
\* any other exception leaves the loop and the function
RECURSIVE ParseLoop(_, _)
ParseLoop(items, parsed_logs) ==
    IF items = <<>> THEN [exc |-> "none", logs |-> parsed_logs]
    ELSE LET r == ParseEntry(Head(items))
         IN  IF r.exc = "none"
             THEN ParseLoop(Tail(items), Append(parsed_logs, r.entry))
             ELSE IF r.exc \in {"ValueError", "TypeError"}
             THEN ParseLoop(Tail(items), parsed_logs)
             ELSE [exc |-> r.exc, logs |-> <<>>]

ValidateAndParseLogs(in) ==
    IF ~in.is_list THEN [exc |-> "ValueError", logs |-> <<>>]
    ELSE ParseLoop(in.items, <<>>)

(***************************************************************************)
(* Dictionaries kept in insertion order                                    *)
(***************************************************************************)
HasKey(d, key) == \E j \in 1..Len(d) : d[j].k = key
IndexOf(d, key) == CHOOSE j \in 1..Len(d) : d[j].k = key

\* d[key] += 1 on a defaultdict(int)
Inc(d, key) ==
    IF HasKey(d, key)
    THEN [d EXCEPT ![IndexOf(d, key)].v = @ + 1]
    ELSE Append(d, [k |-> key, v |-> 1])

RECURSIVE SumCounts(_)
SumCounts(d) == IF d = <<>> THEN 0 ELSE Head(d).v + SumCounts(Tail(d))

\* bool(v)
Truthy(v) ==
    CASE v.t = "null" -> FALSE
      [] v.t = "str" -> v.s # <<>>
      [] v.t = "int" -> v.i # 0
      [] v.t = "inf" -> TRUE

(***************************************************************************)
(* LogAnalyzer._process_log_page                                           *)
(***************************************************************************)
\* the counters LogAnalyzer.__init__ creates
EmptyAcc ==
    [status_codes |-> <<>>, endpoints |-> <<>>, errors |-> 0,
     response_times |-> <<>>, error_messages |-> <<>>, methods |-> <<>>]

NoErrorMessage ==
    StrV(<<"N","o"," ","e","r","r","o","r"," ","m","e","s","s","a","g","e">>)

\* faulty variant of CountStatus: self.status_codes[log.status] = 1
CountStatusAssign(st, log) ==
    [st EXCEPT !.status_codes =
        IF HasKey(@, log.status) THEN @
        ELSE Append(@, [k |-> log.status, v |-> 1])]

\* self.status_codes[log.status] += 1
CountStatus(st, log) ==
    [st EXCEPT !.status_codes = Inc(@, log.status)]

\* self.methods[log.method] += 1
CountMethod(st, log) ==
    [st EXCEPT !.methods = Inc(@, log.method)]

\* faulty variant of CountError: a falsy message is not counted under the
\* default text
CountErrorNoDefault(st, log) ==
    IF 400 <= log.status /\ log.status < 600
    THEN [st EXCEPT !.errors = @ + 1,
                    !.error_messages =
                        IF Truthy(log.message) THEN Inc(@, log.message) ELSE @]
    ELSE st

\* if 400 <= log.status < 600: count the error and its message
CountError(st, log) ==
    IF 400 <= log.status /\ log.status < 600
    THEN [st EXCEPT !.errors = @ + 1,
                    !.error_messages =
                        Inc(@, IF Truthy(log.message) THEN log.message
                               ELSE NoErrorMessage)]
    ELSE st

\* self.endpoints[log.path]['count'] += 1 and ['methods'][log.method] += 1
CountEndpoint(st, log) ==
    LET eps == st.endpoints
        created == IF HasKey(eps, log.path) THEN eps
                   ELSE Append(eps, [k |-> log.path,
                                     v |-> [count |-> 0, methods |-> <<>>]])
        j == IndexOf(created, log.path)
    IN  [st EXCEPT !.endpoints =
            [created EXCEPT ![j].v.count = @ + 1,
                            ![j].v.methods = Inc(@, log.method)]]

\* if log.response_time is not None: append it
TrackResponseTime(st, log) ==
    IF log.response_time.present
    THEN [st EXCEPT !.response_times = Append(@, log.response_time.v)]
    ELSE st

\* the body of the for loop, for one entry
ProcessLog(st, log) ==
    TrackResponseTime(
        CountEndpoint(CountError(CountMethod(CountStatus(st, log), log), log),
                      log),
        log)

RECURSIVE ProcessLogPage(_, _)
ProcessLogPage(st, page) ==
    IF page = <<>> THEN st
    ELSE ProcessLogPage(ProcessLog(st, Head(page)), Tail(page))

(***************************************************************************)
(* LogAnalyzer._paginate_logs                                              *)
(***************************************************************************)
\* list(range(0, n, step)) for step # 0 (range raises ValueError on step 0)
RECURSIVE RangeFrom(_, _, _)
RangeFrom(start, n, step) ==
    IF step > 0 /\ start < n
    THEN <<start>> \o RangeFrom(start + step, n, step)
    ELSE IF step < 0 /\ start > n
    THEN <<start>> \o RangeFrom(start + step, n, step)
    ELSE <<>>

\* seq[lo:hi] for 0 <= lo
Slice(seq, lo, hi) ==
    SubSeq(seq, lo + 1, IF hi < Len(seq) THEN hi ELSE Len(seq))

\* faulty variant of PaginateLogs: the short final page is left out
PaginateDropTail(entries, size) ==
    LET starts == RangeFrom(0, Len(entries) - (size - 1), size)
    IN  [j \in 1..Len(starts) |-> Slice(entries, starts[j], starts[j] + size)]

\* [self.logs[i:i + self.page_size] for i in range(0, len(self.logs), size)]
PaginateLogs(entries, size) ==
    LET starts == RangeFrom(0, Len(entries), size)
    IN  [j \in 1..Len(starts) |-> Slice(entries, starts[j], starts[j] + size)]

(***************************************************************************)
(* LogAnalyzer._calculate_percentile and the figures of the report         *)
(***************************************************************************)
\* sorted(...): insertion after every element that is not greater keeps the
\* order of equal elements
RECURSIVE InsertAsc(_, _)
InsertAsc(sorted, x) ==
    IF sorted = <<>> THEN <<x>>
    ELSE IF x < Head(sorted) THEN <<x>> \o sorted
    ELSE <<Head(sorted)>> \o InsertAsc(Tail(sorted), x)

RECURSIVE SortAsc(_)
SortAsc(seq) ==
    IF seq = <<>> THEN <<>>
    ELSE InsertAsc(SortAsc(SubSeq(seq, 1, Len(seq) - 1)), seq[Len(seq)])

\* faulty variant of SortedTimes: the samples are used in arrival order
SortedTimesUnsorted(times) == times

\* sorted_times = sorted(self.response_times)
SortedTimes(times) == SortAsc(times)

\* _calculate_percentile(percentile), in hundredths; k is kept as 100 * k
CalculatePercentile(times, percentile) ==
    IF times = <<>> THEN 0
    ELSE LET sorted_times == SortedTimes(times)
             n == Len(sorted_times)
             k100 == (n - 1) * percentile
             f == k100 \div 100
             c == IF k100 % 100 = 0 THEN f ELSE f + 1
         IN  IF f = c THEN 100 * sorted_times[f + 1]
             ELSE sorted_times[f + 1] * (100 * c - k100)
                  + sorted_times[c + 1] * (k100 - 100 * f)

\* round(num / den, 0) for num >= 0 and den > 0, ties to the even neighbour
RoundDiv(num, den) ==
    LET q == num \div den
        r2 == 2 * (num % den)
    IN  IF r2 < den THEN q
        ELSE IF r2 > den THEN q + 1
        ELSE IF q % 2 = 0 THEN q ELSE q + 1

RECURSIVE SumSeq(_)
SumSeq(seq) == IF seq = <<>> THEN 0 ELSE Head(seq) + SumSeq(Tail(seq))

MinOf(seq) == CHOOSE x \in {seq[j] : j \in 1..Len(seq)} :
                  \A j \in 1..Len(seq) : x <= seq[j]
MaxOf(seq) == CHOOSE x \in {seq[j] : j \in 1..Len(seq)} :
                  \A j \in 1..Len(seq) : x >= seq[j]

\* the 'response_times' object of the report
ResponseTimeStats(times) ==
    [avg_ms |-> IF times # <<>> THEN RoundDiv(100 * SumSeq(times), Len(times))
                ELSE 0,
     p50_ms |-> CalculatePercentile(times, 50),
     p95_ms |-> CalculatePercentile(times, 95),
     p99_ms |-> CalculatePercentile(times, 99),
     min_ms |-> IF times # <<>> THEN 100 * MinOf(times) ELSE 0,
     max_ms |-> IF times # <<>> THEN 100 * MaxOf(times) ELSE 0]

(***************************************************************************)
(* sorted(items, key=count, reverse=True)[:n]                              *)
(***************************************************************************)
\* faulty variant of InsertDesc: items of equal key come out in reverse order
RECURSIVE InsertDescReversed(_, _)
InsertDescReversed(sorted, x) ==
    IF sorted = <<>> THEN <<x>>
    ELSE IF x.key >= Head(sorted).key THEN <<x>> \o sorted
    ELSE <<Head(sorted)>> \o InsertDescReversed(Tail(sorted), x)

\* reverse=True keeps the original order of items whose keys are equal: an
\* item goes after every item whose key is not smaller
RECURSIVE InsertDesc(_, _)
InsertDesc(sorted, x) ==
    IF sorted = <<>> THEN <<x>>
    ELSE IF x.key > Head(sorted).key THEN <<x>> \o sorted
    ELSE <<Head(sorted)>> \o InsertDesc(Tail(sorted), x)

RECURSIVE SortDesc(_)
SortDesc(keyed) ==
    IF keyed = <<>> THEN <<>>
    ELSE InsertDesc(SortDesc(SubSeq(keyed, 1, Len(keyed) - 1)),
                    keyed[Len(keyed)])

\* seq[:n]
Take(seq, n) == SubSeq(seq, 1, IF Len(seq) < n THEN Len(seq) ELSE n)

\* the top_endpoints comprehension
TopEndpoints(eps) ==
    LET keyed == [j \in 1..Len(eps) |-> [key |-> eps[j].v.count, item |-> eps[j]]]
        top == Take(SortDesc(keyed), TopEndpointsN)
    IN  [j \in 1..Len(top) |->
            [k |-> top[j].item.k,
             v |-> [total_requests |-> top[j].item.v.count,
                    methods |-> top[j].item.v.methods]]]

\* the top_errors dict
TopErrors(msgs) ==
    LET keyed == [j \in 1..Len(msgs) |-> [key |-> msgs[j].v, item |-> msgs[j]]]
        top == Take(SortDesc(keyed), TopErrorsN)
    IN  [j \in 1..Len(top) |-> top[j].item]

\* faulty variant of TotalRequests: the validated entries are counted
TotalRequestsValidated(in, parsed) == Len(parsed)

\* self.total_requests = len(logs)
TotalRequests(in, parsed) == Len(in.items)

\* error_rate, rounded to two decimals, in hundredths of a percent
ErrorRate(errs, total) ==
    IF total > 0 THEN RoundDiv(errs * 100 * 100, total) ELSE 0

\* the dict analyze returns
BuildReport(st, total) ==
    [total_requests |-> total,
     error_rate_percentage |-> ErrorRate(st.errors, total),
     status_code_distribution |-> st.status_codes,
     method_distribution |-> st.methods,
     top_endpoints |-> TopEndpoints(st.endpoints),
     response_times |-> ResponseTimeStats(st.response_times),
     top_errors |-> TopErrors(st.error_messages)]

\* the counters of the object, as one record
Acc ==
    [status_codes |-> status_codes, endpoints |-> endpoints, errors |-> errors,
     response_times |-> response_times, error_messages |-> error_messages,
     methods |-> methods]

(***************************************************************************)
(* Inputs                                                                  *)
(***************************************************************************)
Rec(path, status, method, response_time, message) ==
    [is_dict |-> TRUE, timestamp |-> Absent, path |-> path, status |-> status,
     method |-> method, response_time |-> response_time, message |-> message]

PathA == StrV(<<"/","a">>)
PathB == StrV(<<"/","b">>)

\* {'path': '/a', 'status': 200, 'method': 'get', 'response_time': 10}
RecOk == Rec(PathA, IntV(200), StrV(<<"g","e","t">>), IntV(10), Absent)
\* {'path': '/b', 'status': '404', 'method': 'GET', 'response_time': '20',
\*  'message': 'nf'}
RecNotFound ==
    Rec(PathB, StrV(<<"4","0","4">>), StrV(<<"G","E","T">>),
        StrV(<<"2","0">>), StrV(<<"n","f">>))
\* {'status': 500}
RecServerError == Rec(Absent, IntV(500), Absent, Absent, Absent)
\* {'path': None, 'status': 600, 'method': None, 'response_time': 30}
RecNullPath == Rec(Null, IntV(600), Null, IntV(30), Absent)
\* {'path': '/a', 'status': 'oops'}
RecBadStatus == Rec(PathA, StrV(<<"o","o","p","s">>), Absent, Absent, Absent)
\* {'path': '/a', 'status': 200, 'response_time': None}
RecNullTime == Rec(PathA, IntV(200), Absent, Null, Absent)
\* {'status': float('inf')}, what json.loads makes of {"status": Infinity}
RecInfStatus == Rec(Absent, Inf, Absent, Absent, Absent)
\* {'path': '/a', 'status': 400, 'message': ''}
RecEmptyMessage == Rec(PathA, IntV(400), Absent, Absent, StrV(<<>>))
\* a list item that is no dict, such as the string 'x'
RecNotADict == [Rec(Absent, Absent, Absent, Absent, Absent)
                    EXCEPT !.is_dict = FALSE]

RawRecords ==
    {RecOk, RecNotFound, RecServerError, RecNullPath, RecBadStatus,
     RecNullTime, RecInfStatus, RecEmptyMessage, RecNotADict}

SeqsUpTo(S, n) == UNION {[1..k -> S] : k \in 0..n}

PageSizes == (-1..MaxPageSize) \cup {DefaultPageSize}

InitObject ==
    /\ pc = "start"
    /\ exc = "none"
    /\ logs = <<>>
    /\ total_requests = 0
    /\ status_codes = <<>>
    /\ endpoints = <<>>
    /\ errors = 0
    /\ response_times = <<>>
    /\ error_messages = <<>>
    /\ methods = <<>>
    /\ pages = <<>>
    /\ page_i = 0
    /\ reports = <<>>

\* any batch of up to MaxLen raw records, or an argument that is no list,
\* with any page size
Init ==
    /\ input \in {[is_list |-> FALSE, items |-> <<>>]}
                 \cup {[is_list |-> TRUE, items |-> s] :
                          s \in SeqsUpTo(RawRecords, MaxLen)}
    /\ page_size \in PageSizes
    /\ InitObject

(***************************************************************************)
(* Operations                                                              *)
(***************************************************************************)
\* LogAnalyzer(logs, page_size)
Construct ==
    /\ pc = "start"
    /\ LET r == ValidateAndParseLogs(input)
       IN  IF r.exc # "none"
           THEN /\ pc' = "init_failed"
                /\ exc' = r.exc
                /\ UNCHANGED <<logs, total_requests, status_codes, endpoints,
                               errors, response_times, error_messages, methods>>
           ELSE /\ pc' = "constructed"
                /\ exc' = exc
                /\ logs' = r.logs
                /\ total_requests' = TotalRequests(input, r.logs)
                /\ status_codes' = EmptyAcc.status_codes
                /\ endpoints' = EmptyAcc.endpoints
                /\ errors' = EmptyAcc.errors
                /\ response_times' = EmptyAcc.response_times
                /\ error_messages' = EmptyAcc.error_messages
                /\ methods' = EmptyAcc.methods
    /\ UNCHANGED <<input, page_size, pages, page_i, reports>>

\* analyze() is called (on a new object, or again on one that has returned):
\* the loop header evaluates self._paginate_logs()
Analyze ==
    /\ pc \in {"constructed", "done"}
    /\ Len(reports) < MaxCalls
    /\ IF page_size = 0
       THEN /\ pc' = "analyze_failed"
            /\ exc' = "ValueError"
            /\ UNCHANGED <<pages, page_i>>
       ELSE /\ pc' = "folding"
            /\ exc' = exc
            /\ pages' = PaginateLogs(logs, page_size)
            /\ page_i' = 0
    /\ UNCHANGED <<input, page_size, logs, total_requests, status_codes,
                   endpoints, errors, response_times, error_messages, methods,
                   reports>>

\* one iteration of analyze's loop: self._process_log_page(page)
ProcessPage ==
    /\ pc = "folding"
    /\ page_i < Len(pages)
    /\ LET st == ProcessLogPage(Acc, pages[page_i + 1])
       IN  /\ status_codes' = st.status_codes
           /\ endpoints' = st.endpoints
           /\ errors' = st.errors
           /\ response_times' = st.response_times
           /\ error_messages' = st.error_messages
           /\ methods' = st.methods
    /\ page_i' = page_i + 1
    /\ UNCHANGED <<input, page_size, pc, exc, logs, total_requests, pages,
                   reports>>

\* the loop is over: analyze computes the metrics and returns the report
Return ==
    /\ pc = "folding"
    /\ page_i = Len(pages)
    /\ reports' = Append(reports, BuildReport(Acc, total_requests))
    /\ pc' = "done"
    /\ UNCHANGED <<input, page_size, exc, logs, total_requests, status_codes,
                   endpoints, errors, response_times, error_messages, methods,
                   pages, page_i>>

Next == Construct \/ Analyze \/ ProcessPage \/ Return

Spec == Init /\ [][Next]_vars

(***************************************************************************)
(* Input families for the finalisation routines                            *)
(***************************************************************************)
\* {'path': '/p<j>'}
PathRec(j) ==
    Rec(StrV(<<"/","p">> \o DigitsOf(j)), Absent, Absent, Absent, Absent)

MaxIn(seq) ==
    IF seq = <<>> THEN 0
    ELSE CHOOSE m \in {seq[j] : j \in 1..Len(seq)} :
             \A j \in 1..Len(seq) : m >= seq[j]

\* the sequences of path numbers of length up to n in which the paths are
\* numbered in the order of their first occurrence
RECURSIVE FirstSeenOrdered(_)
FirstSeenOrdered(n) ==
    IF n = 0 THEN {<<>>}
    ELSE LET shorter == FirstSeenOrdered(n - 1)
         IN  shorter \cup
             UNION {{Append(s, j) : j \in 1..(MaxIn(s) + 1)} :
                       s \in {x \in shorter : Len(x) = n - 1}}

\* batches of up to MaxTopLen well-formed records that differ in their path
\* only: every pattern of repetition among up to MaxTopLen paths
InitTop ==
    /\ input \in {[is_list |-> TRUE,
                   items |-> [j \in 1..Len(s) |-> PathRec(s[j])]] :
                      s \in FirstSeenOrdered(MaxTopLen)}
    /\ page_size = DefaultPageSize
    /\ InitObject

SpecTop == InitTop /\ [][Next]_vars

SampleValues == {10, 20, 30, 40}

\* {'response_time': v}
TimeRec(v) == Rec(Absent, Absent, Absent, IntV(v), Absent)

\* batches of up to MaxSamples well-formed records carrying a response time
InitPct ==
    /\ input \in {[is_list |-> TRUE, items |-> s] :
                     s \in SeqsUpTo({TimeRec(v) : v \in SampleValues},
                                    MaxSamples)}
    /\ page_size = DefaultPageSize
    /\ InitObject

SpecPct == InitPct /\ [][Next]_vars

(***************************************************************************)
(* What the input determines, computed from the input alone                *)
(***************************************************************************)
SmallerOf(a, b) == IF a < b THEN a ELSE b
Distance(a, b) == IF a < b THEN b - a ELSE a - b

\* the record's status and response time can be coerced
Survives(raw) ==
    /\ raw.is_dict
    /\ IntCoerce(Get(raw.status, IntV(DefaultStatus))).exc = "none"
    /\ \/ raw.response_time.t = "absent"
       \/ FloatCoerce(raw.response_time).exc = "none"

Survivors == {j \in 1..Len(input.items) : Survives(input.items[j])}

ErrorSurvivors ==
    {j \in Survivors :
        LET s == IntCoerce(Get(input.items[j].status, IntV(DefaultStatus))).v
        IN  400 <= s /\ s < 600}

\* the entries handed to _process_log_page so far, over all analyze() calls
RECURSIVE PagesLen(_, _)
PagesLen(pp, n) == IF n = 0 THEN 0 ELSE Len(pp[n]) + PagesLen(pp, n - 1)

EntriesFolded ==
    CASE pc = "folding" ->
            Len(reports) * PagesLen(pages, Len(pages)) + PagesLen(pages, page_i)
      [] pc = "done" -> Len(reports) * PagesLen(pages, Len(pages))
      [] OTHER -> 0

\* the counters after folding the first n entries in one go
FoldedAtOnce(n) == ProcessLogPage(EmptyAcc, SubSeq(logs, 1, n))

\* C1. Pagination independence: for every positive page size, after each
\* page of the first analyze() call the counters, the order of the samples
\* and the first-seen order of the endpoints and messages are those of
\* folding the same prefix of the entries at once, and the report returned
\* is the report of folding the whole sequence at once.
C1_PaginationIndependence ==
    /\ (page_size > 0 /\ pc = "folding" /\ Len(reports) = 0)
          => Acc = FoldedAtOnce(SmallerOf(page_i * page_size, Len(logs)))
    /\ (page_size > 0 /\ pc = "done" /\ Len(reports) = 1)
          => reports[1] = BuildReport(FoldedAtOnce(Len(logs)), Len(input.items))

\* three entries were folded as a page of two and a page of one
C1_Witness ==
    /\ pc = "done"
    /\ Len(reports) = 1
    /\ page_size = 2
    /\ Len(logs) = 3
    /\ Len(pages) = 2
    /\ Len(reports[1].top_endpoints) >= 2
    /\ reports[1].top_errors # <<>>

\* C2. Count invariant: after every fold step the status-code counts sum
\* to the number of validated entries processed so far, and the status
\* distribution of the report of an analysis (positive page size, first
\* analyze() call) sums to the number of records that survived validation,
\* not to the number of raw records.
C2_CountInvariant ==
    /\ SumCounts(status_codes) = EntriesFolded
    /\ (page_size > 0 /\ pc = "done" /\ Len(reports) = 1)
          => SumCounts(reports[1].status_code_distribution)
                 = Cardinality(Survivors)

\* a report over a batch of three of which one record was dropped
C2_Witness ==
    /\ pc = "done"
    /\ Len(reports) = 1
    /\ page_size > 0
    /\ Len(input.items) = 3
    /\ Cardinality(Survivors) = 2
    /\ SumCounts(reports[1].status_code_distribution) = 2
    /\ Len(reports[1].status_code_distribution) = 1

\* rate is num / den rounded to the nearest integer, a tie to the even one
IsRounded(rate, num, den) ==
    /\ 2 * Distance(rate * den, num) <= den
    /\ 2 * Distance(rate * den, num) = den => rate % 2 = 0

\* C3. Error invariant: the report's error_rate_percentage is (validated
\* entries with 400 <= status < 600) / (raw record count) * 100 rounded to
\* two decimals, 0 when there is no raw record, and total_requests is the
\* raw record count (positive page size, first analyze() call).
C3_ErrorRate ==
    (page_size > 0 /\ pc = "done" /\ Len(reports) = 1) =>
        LET raw_count == Len(input.items)
            rate == reports[1].error_rate_percentage
        IN  /\ reports[1].total_requests = raw_count
            /\ raw_count = 0 => rate = 0
            /\ raw_count > 0 =>
                   IsRounded(rate, Cardinality(ErrorSurvivors) * 10000, raw_count)

\* one error among three raw records of which one was dropped: 33.33
C3_Witness ==
    /\ pc = "done"
    /\ Len(reports) = 1
    /\ page_size > 0
    /\ Len(input.items) = 3
    /\ Cardinality(Survivors) = 2
    /\ Cardinality(ErrorSurvivors) = 1
    /\ reports[1].error_rate_percentage = 3333

\* C4. Drop-and-continue: for a list of raw records (dicts), validation
\* never aborts the batch: a record whose status or response_time cannot be
\* coerced is dropped and every other record is kept.
C4_DropAndContinue ==
    (/\ pc # "start"
     /\ input.is_list
     /\ \A j \in 1..Len(input.items) : input.items[j].is_dict)
        => /\ pc # "init_failed"
           /\ Len(logs) = Cardinality(Survivors)

\* C5. Invalid page size: with page_size <= 0 the analysis produces no
\* report.
C5_InvalidPageSizeFails == page_size <= 0 => reports = <<>>

\* C6. Idempotence: a second analyze() call returns the report of the
\* first.
C6_Idempotence == Len(reports) >= 2 => reports[2] = reports[1]

\* the order statistic of 0-based rank r: the value with at most r samples
\* below it and more than r samples not above it
OrderStat(samples, r) ==
    CHOOSE v \in {samples[j] : j \in 1..Len(samples)} :
        /\ Cardinality({j \in 1..Len(samples) : samples[j] < v}) <= r
        /\ Cardinality({j \in 1..Len(samples) : samples[j] <= v}) > r

\* res (hundredths) is the p-th percentile of the samples as the algorithm
\* defines it; kk is 100 * k
IsPercentile(samples, p, res) ==
    LET n == Len(samples)
        kk == (n - 1) * p
        f == CHOOSE x \in 0..n : 100 * x <= kk /\ kk < 100 * (x + 1)
        c == CHOOSE x \in 0..n : 100 * (x - 1) < kk /\ kk <= 100 * x
    IN  /\ f \in 0..(n - 1)
        /\ c \in 0..(n - 1)
        /\ f = c => res = 100 * OrderStat(samples, f)
        /\ f # c => res = OrderStat(samples, f) * (100 * c - kk)
                          + OrderStat(samples, c) * (kk - 100 * f)
        /\ 100 * OrderStat(samples, f) <= res
        /\ res <= 100 * OrderStat(samples, c)

\* C7. Percentile algorithm: for a non-empty sample sequence the reported
\* p50, p95 and p99 are s[k] when k = (n-1)*p/100 is whole and
\* s[f]*(c-k) + s[c]*(k-f) otherwise, with f and c valid indices and the
\* result between s[f] and s[c]; for the samples 10, 20, 30, 40 p50 is 25,
\* min is 10 and max is 40.
C7_Percentile ==
    (pc = "done" /\ Len(reports) = 1 /\ response_times # <<>>) =>
        LET stats == reports[1].response_times
        IN  /\ IsPercentile(response_times, 50, stats.p50_ms)
            /\ IsPercentile(response_times, 95, stats.p95_ms)
            /\ IsPercentile(response_times, 99, stats.p99_ms)
            /\ response_times = <<10, 20, 30, 40>> =>
                   /\ stats.p50_ms = 2500
                   /\ stats.min_ms = 1000
                   /\ stats.max_ms = 4000

\* the report over the samples 10, 20, 30, 40
C7_Witness ==
    /\ pc = "done"
    /\ Len(reports) = 1
    /\ response_times = <<10, 20, 30, 40>>
    /\ reports[1].response_times.p50_ms = 2500
    /\ reports[1].response_times.p95_ms = 3850

PathsSeen == {logs[j].path : j \in 1..Len(logs)}
PathCount(p) == Cardinality({j \in 1..Len(logs) : logs[j].path = p})
FirstSeen(p) == CHOOSE j \in 1..Len(logs) :
                    logs[j].path = p /\ \A h \in 1..(j - 1) : logs[h].path # p

\* path p ranks before path q: more requests, or as many and seen first
RanksBefore(p, q) ==
    \/ PathCount(p) > PathCount(q)
    \/ PathCount(p) = PathCount(q) /\ FirstSeen(p) < FirstSeen(q)

\* C8. Top-N selection and tie-break stability: top_endpoints holds at
\* most 5 paths, each with its request count, in descending count order,
\* paths of equal count in the order they were first encountered, and no
\* path left out has a strictly higher count than a path listed.
C8_TopEndpoints ==
    (pc = "done" /\ Len(reports) = 1) =>
        LET top == reports[1].top_endpoints
            listed == {top[j].k : j \in 1..Len(top)}
        IN  /\ Len(top) = SmallerOf(5, Cardinality(PathsSeen))
            /\ listed \subseteq PathsSeen
            /\ \A j \in 1..Len(top) :
                   top[j].v.total_requests = PathCount(top[j].k)
            /\ \A h, j \in 1..Len(top) :
                   h < j => RanksBefore(top[h].k, top[j].k)
            /\ \A p \in PathsSeen \ listed : \A q \in listed :
                   /\ PathCount(p) <= PathCount(q)
                   /\ RanksBefore(q, p)

\* six paths, five listed: one with two requests, then three and more of
\* equal count in first-seen order
C8_Witness ==
    /\ pc = "done"
    /\ Len(reports) = 1
    /\ Cardinality(PathsSeen) = 6
    /\ LET top == reports[1].top_endpoints
       IN  /\ Len(top) = 5
           /\ top[1].v.total_requests = 2
           /\ top[2].v.total_requests = 1
           /\ top[3].v.total_requests = 1
           /\ top[4].v.total_requests = 1
           /\ FirstSeen(top[1].k) > FirstSeen(top[2].k)
           /\ FirstSeen(top[2].k) < FirstSeen(top[3].k)
           /\ FirstSeen(top[3].k) < FirstSeen(top[4].k)

\* C9. Validated-entry invariant: every entry validation produced has a
\* string path and an upper-case string method (its status is an integer
\* by construction).
C9_ValidatedEntryInvariant ==
    \A j \in 1..Len(logs) :
        /\ logs[j].path.t = "str"
        /\ logs[j].method = Upper(logs[j].method)

\* C10. Cross-counter consistency: after every fold step the endpoint
\* counts, the method counts and the status-code counts have the same sum,
\* each endpoint's method counts sum to its count, the error counter is the
\* sum of the error-message counts, and there are at most as many samples
\* as entries processed.
C10_CrossCounterConsistency ==
    /\ SumCounts([j \in 1..Len(endpoints) |->
                     [k |-> endpoints[j].k, v |-> endpoints[j].v.count]])
           = SumCounts(methods)
    /\ SumCounts(methods) = SumCounts(status_codes)
    /\ \A j \in 1..Len(endpoints) :
           SumCounts(endpoints[j].v.methods) = endpoints[j].v.count
    /\ errors = SumCounts(error_messages)
    /\ Len(response_times) <= EntriesFolded

\* part of a batch is folded: an error without a message, two endpoints,
\* fewer samples than entries, a page still to come
C10_Witness ==
    /\ pc = "folding"
    /\ 0 < page_i
    /\ page_i < Len(pages)
    /\ errors >= 1
    /\ HasKey(error_messages, NoErrorMessage)
    /\ Len(endpoints) >= 2
    /\ response_times # <<>>
    /\ Len(response_times) < EntriesFolded

====
